---- MODULE Spec2Model ----
(***************************************************************************)
(* A model of py-psscriptanalyzer: the SARIF translation of core.py, the   *)
(* script synthesis of scripts.py together with the behaviour of the       *)
(* synthesized PowerShell script, run_script_analyzer of core.py, the      *)
(* discovery and module management of powershell.py and the entry points.  *)
(*                                                                         *)
(*   SpecSarif   convert_to_sarif applied to bounded lists of findings     *)
(*   SpecScript  generate_analysis_script and one run of its script        *)
(*   Spec        run_script_analyzer around one interpreter subprocess     *)
(*   SpecMain    cli.main and core.main: discovery, module check,          *)
(*               installation, then run_script_analyzer                    *)
(*   SpecQuote   the quoting of file paths and rule names, character by    *)
(*               character                                                 *)
(***************************************************************************)
EXTENDS Integers, Sequences, FiniteSets, TLC

VARIABLES
    pc,          \* position of the modelled program
    ps_results,  \* convert_to_sarif: the list of findings handed in
    files,       \* the file list of the call
    sarif,       \* convert_to_sarif: the document returned
    args,        \* generate_analysis_script: its keyword arguments
    script,      \* the synthesized analysis script
    analyzed,    \* script run: what the analyzer found, file by file
    issues,      \* script run: $issues
    formatted,   \* format script run: what happened to each file
    exitCode,    \* format script run: $exitCode
    proc,        \* the interpreter subprocess: exit status and stdout
    call,        \* run_script_analyzer: its arguments
    ret,         \* run_script_analyzer: the value returned
    console,     \* what the tool itself printed
    out_file,    \* run_script_analyzer: the content of the output file
    started,     \* the subprocess.run calls made so far, in order
    main         \* the entry point: its arguments, interpreter, exit status

vars == <<pc, ps_results, files, sarif, args, script, analyzed, issues,
          formatted, exitCode, proc, call, ret, console, out_file, started,
          main>>

sarifVars == <<ps_results, sarif>>
genVars == <<args, script>>
scriptRunVars == <<analyzed, issues>>
formatVars == <<formatted, exitCode>>
runVars == <<call, ret, console, out_file, started, main>>

(***************************************************************************)
(* Bounds                                                                  *)
(***************************************************************************)
MaxFindings == 3
MaxFiles == 2

None == "None"

\* The JSON scalars met in the Severity field: strings, integers, null.
JStr(s) == <<"str", s>>
JInt(n) == <<"int", n>>
JNull == <<"null", "null">>

\* dict.get(key, default)
Get(d, key, default) == IF key \in DOMAIN d THEN d[key] ELSE default

\* The index, from i on, of the first finding carrying rule_id; 0 if none.
RECURSIVE FirstWithRule(_, _, _)
FirstWithRule(results, rule_id, i) ==
    IF i > Len(results) THEN 0
    ELSE IF Get(results[i], "RuleName", "") = rule_id THEN i
    ELSE FirstWithRule(results, rule_id, i + 1)

(***************************************************************************)
(* core.convert_to_sarif                                                   *)
(***************************************************************************)
SARIF_VERSION == "2.1.0"

\* str.lower() on the category strings of the model.
Lower(s) ==
    CASE s = "Security" -> "security"
      [] s = "Style" -> "style"
      [] s = "SECURITY" -> "security"
      [] OTHER -> s

\* severity_map without its numeric aliases.
severity_map_names_only(severity) ==
    CASE severity = JStr("Error") -> "error"
      [] severity = JStr("Warning") -> "warning"
      [] severity = JStr("Information") -> "note"
      [] OTHER -> "warning"

\* severity_map.get(severity, "warning")
severity_map(severity) ==
    CASE severity = JStr("Error") -> "error"
      [] severity = JStr("Warning") -> "warning"
      [] severity = JStr("Information") -> "note"
      [] severity = JInt(0) -> "note"
      [] severity = JInt(1) -> "warning"
      [] severity = JInt(2) -> "error"
      [] OTHER -> "warning"

\* The category tag appended without looking at the tags already there.
rule_tags_category_always(result) ==
    LET tags == IF Get(result, "IsSecurityRule", FALSE) THEN <<"security">>
                ELSE <<>>
        rule_category == Get(result, "RuleCategory", "")
    IN  IF rule_category # "" THEN Append(tags, Lower(rule_category))
        ELSE tags

\* The tags of a new rule-metadata entry.
rule_tags(result) ==
    LET tags == IF Get(result, "IsSecurityRule", FALSE) THEN <<"security">>
                ELSE <<>>
        rule_category == Get(result, "RuleCategory", "")
    IN  IF rule_category # ""
           /\ Lower(rule_category) \notin {Lower(tags[i]) : i \in DOMAIN tags}
        THEN Append(tags, Lower(rule_category))
        ELSE tags

rule_entry(result) ==
    [id |-> Get(result, "RuleName", ""),
     tags |-> rule_tags(result),
     category |-> Get(result, "RuleCategory", "")]

sarif_result(result) ==
    [ruleId |-> Get(result, "RuleName", ""),
     level |-> severity_map(Get(result, "Severity", JStr("Warning"))),
     message |-> Get(result, "Message", ""),
     line |-> Get(result, "Line", 1),
     column |-> Get(result, "Column", 1)]

\* add_rule_metadata without the rules_added test.
add_rule_metadata_no_dedup(rules, result) ==
    IF Get(result, "RuleName", "") # ""
    THEN Append(rules, rule_entry(result))
    ELSE rules

\* add_rule_metadata overwriting the entry of a rule already recorded.
add_rule_metadata_last_wins(rules, result) ==
    LET rule_id == Get(result, "RuleName", "")
        rules_added == {rules[i].id : i \in DOMAIN rules}
    IN  IF rule_id = "" THEN rules
        ELSE IF rule_id \notin rules_added
        THEN Append(rules, rule_entry(result))
        ELSE [i \in DOMAIN rules |->
                IF rules[i].id = rule_id THEN rule_entry(result) ELSE rules[i]]

\* "Add rule metadata if not already added": the rules list after one finding.
add_rule_metadata(rules, result) ==
    LET rule_id == Get(result, "RuleName", "")
        rules_added == {rules[i].id : i \in DOMAIN rules}
    IN  IF rule_id # "" /\ rule_id \notin rules_added
        THEN Append(rules, rule_entry(result))
        ELSE rules

\* The loop over ps_results, from finding i on.
RECURSIVE process_results(_, _, _)
process_results(doc, results, i) ==
    IF i > Len(results) THEN doc
    ELSE process_results(
            [doc EXCEPT !.rules = add_rule_metadata(doc.rules, results[i]),
                        !.results = Append(doc.results, sarif_result(results[i]))],
            results, i + 1)

\* The artifacts list with one entry per distinct path.
sarif_artifacts_distinct(file_list) ==
    LET IsFirst(i) == \A j \in 1..(i - 1) : file_list[j] # file_list[i]
        RECURSIVE Firsts(_)
        Firsts(i) ==
            IF i > Len(file_list) THEN <<>>
            ELSE (IF IsFirst(i) THEN <<[uri |-> <<"file://", file_list[i]>>]>>
                  ELSE <<>>) \o Firsts(i + 1)
    IN  Firsts(1)

\* "artifacts": one location per element of files.
sarif_artifacts(file_list) ==
    [i \in DOMAIN file_list |-> [uri |-> <<"file://", file_list[i]>>]]

\* A python value handed as ps_results: a list of records, or one record.
List(items) == [type |-> "list", value |-> items]
Dict(record) == [type |-> "dict", value |-> record]

\* A lone record taken as no finding at all.
ensure_list_drops_record(results) ==
    IF results.type = "list" THEN results.value ELSE <<>>

\* "Ensure ps_results is a list": a non-empty value that is no list becomes
\* the list of that one value.
ensure_list(results) ==
    IF results.type # "list" /\ DOMAIN results.value # {}
    THEN <<results.value>>
    ELSE results.value

\* The base SARIF structure holds one run; the loop fills its rules and
\* results.
convert_to_sarif(results, file_list) ==
    [version |-> SARIF_VERSION,
     runs |-> <<process_results(
                  [rules |-> <<>>,
                   results |-> <<>>,
                   artifacts |-> sarif_artifacts(file_list)],
                  ensure_list(results), 1)>>]

(***************************************************************************)
(* SpecSarif: convert_to_sarif on the lists of findings of at most         *)
(* MaxFindings records; a record may lack any of its keys.                 *)
(***************************************************************************)
SarifRuleNames == {"PSAvoidLongLines", "PSAvoidUsingInvokeExpression"}

SarifSeverities ==
    {JStr("Error"), JStr("Information"), JStr("ParseError"), JNull,
     JInt(0), JInt(1), JInt(2), JInt(3)}

SarifFindings ==
    {[RuleName |-> r, Severity |-> JStr("Warning"), Message |-> "m1",
      Line |-> 1, Column |-> 1, IsSecurityRule |-> sec, RuleCategory |-> cat]
        : r \in SarifRuleNames, sec \in BOOLEAN,
          cat \in {"", "Security", "Style"}}
    \cup {[RuleName |-> "", Severity |-> JStr("Warning"), Message |-> "m2",
           Line |-> 2, Column |-> 1, IsSecurityRule |-> TRUE,
           RuleCategory |-> "Security"]}
    \cup {[RuleName |-> "PSAvoidUsingInvokeExpression",
           Severity |-> JStr("Warning"), Message |-> "m5", Line |-> 4,
           Column |-> 2, IsSecurityRule |-> TRUE, RuleCategory |-> "SECURITY"]}
    \cup {[Message |-> "m3"]}
    \cup {[RuleName |-> "PSAvoidLongLines", Severity |-> sev, Message |-> "m4",
           Line |-> 7, Column |-> 3] : sev \in SarifSeverities}

SarifFileLists == {<<>>, <<"a.ps1">>, <<"a.ps1", "b.psm1">>, <<"a.ps1", "a.ps1">>}

NoDoc == [version |-> None, runs |-> <<>>]
NoArgs == [severity |-> None]
NoScript == [severity_param |-> None]
NoProc == [state |-> "none"]
NoCall == [files |-> <<>>]
NoOutput == [format |-> "none"]
NoMain == [entry |-> None]

InitSarif ==
    /\ pc = "sarif_input"
    /\ ps_results = <<>>
    /\ files = <<>>
    /\ sarif = NoDoc
    /\ args = NoArgs
    /\ script = NoScript
    /\ analyzed = <<>>
    /\ issues = <<>>
    /\ formatted = <<>>
    /\ exitCode = 0
    /\ proc = NoProc
    /\ call = NoCall
    /\ ret = None
    /\ console = <<>>
    /\ out_file = NoOutput
    /\ started = <<>>
    /\ main = NoMain

\* The caller puts one more finding on the list it will hand over.
ReceiveFinding ==
    /\ pc = "sarif_input"
    /\ Len(ps_results) < MaxFindings
    /\ \E f \in SarifFindings : ps_results' = Append(ps_results, f)
    /\ UNCHANGED <<pc, files, sarif, genVars, scriptRunVars, formatVars, proc,
                   runVars>>

\* The ways the caller can hand its findings over: as a list, and a single
\* finding also as the record itself.
Handed(findings) ==
    {List(findings)}
    \cup (IF Len(findings) = 1 THEN {Dict(findings[1])} ELSE {})

\* convert_to_sarif(ps_results, files)
ConvertToSarif ==
    /\ pc = "sarif_input"
    /\ \E fl \in SarifFileLists, handed \in Handed(ps_results) :
          /\ files' = fl
          /\ call' = [files |-> fl, ps_results |-> handed]
          /\ sarif' = convert_to_sarif(handed, fl)
    /\ pc' = "sarif_done"
    /\ UNCHANGED <<ps_results, genVars, scriptRunVars, formatVars, proc,
                   ret, console, out_file, started, main>>

NextSarif == ReceiveFinding \/ ConvertToSarif

SpecSarif == InitSarif /\ [][NextSarif]_vars

\* The rule identifiers of the rule-metadata list.
RuleIds == {sarif.runs[1].rules[i].id : i \in DOMAIN sarif.runs[1].rules}

NoDuplicateRuleIds ==
    \A i, j \in DOMAIN sarif.runs[1].rules :
        sarif.runs[1].rules[i].id = sarif.runs[1].rules[j].id => i = j

\* C1 as stated: after convert_to_sarif the rule-metadata list holds exactly
\* one entry for each distinct rule identifier occurring among the findings
\* (the empty identifier included), and no identifier twice.
C1_OneEntryPerIdentifier ==
    pc = "sarif_done" =>
        /\ RuleIds = {ps_results[i].RuleName :
                        i \in {k \in DOMAIN ps_results :
                                 "RuleName" \in DOMAIN ps_results[k]}}
        /\ NoDuplicateRuleIds

\* C1 amended: after convert_to_sarif the rule-metadata list holds exactly one
\* entry for each distinct non-empty rule identifier occurring among the
\* findings and no identifier twice; a finding whose rule identifier is empty
\* or missing adds no entry.
C1_OneEntryPerNonEmptyIdentifier ==
    pc = "sarif_done" =>
        /\ RuleIds = {Get(ps_results[i], "RuleName", "") :
                        i \in DOMAIN ps_results} \ {""}
        /\ NoDuplicateRuleIds

\* Two findings share a rule identifier, a third has an empty one, and the
\* conversion has left a single entry.
C1_Witness ==
    /\ pc = "sarif_done"
    /\ Len(ps_results) = 3
    /\ \E i, j, k \in DOMAIN ps_results :
          /\ i < j
          /\ Get(ps_results[i], "RuleName", "") = "PSAvoidLongLines"
          /\ Get(ps_results[j], "RuleName", "") = "PSAvoidLongLines"
          /\ Get(ps_results[k], "RuleName", "") = ""
    /\ Len(sarif.runs[1].rules) = 1

\* C2: the metadata entry of a rule identifier (tags and category) is that of
\* the first finding in input order carrying the identifier; later findings
\* with the same identifier never change it.
C2_FirstSeenMetadata ==
    pc = "sarif_done" =>
        \A n \in DOMAIN sarif.runs[1].rules :
            LET e == sarif.runs[1].rules[n]
                first == FirstWithRule(ps_results, e.id, 1)
            IN  /\ first > 0
                /\ e.category = Get(ps_results[first], "RuleCategory", "")
                /\ e.tags = rule_tags(ps_results[first])

\* A later finding of the same rule differs from the first in category and
\* security flag, and the entry shows the first one's data.
C2_Witness ==
    /\ pc = "sarif_done"
    /\ Len(ps_results) >= 2
    /\ Get(ps_results[1], "RuleName", "") = "PSAvoidLongLines"
    /\ Get(ps_results[2], "RuleName", "") = "PSAvoidLongLines"
    /\ Get(ps_results[1], "RuleCategory", "") = "Style"
    /\ Get(ps_results[2], "RuleCategory", "") = "Security"
    /\ ~Get(ps_results[1], "IsSecurityRule", FALSE)
    /\ Get(ps_results[2], "IsSecurityRule", FALSE)
    /\ Len(sarif.runs[1].rules) = 1
    /\ sarif.runs[1].rules[1].category = "Style"
    /\ sarif.runs[1].rules[1].tags = <<"style">>

\* C3: each finding's severity maps to its SARIF level by the fixed table:
\* "Error" and 2 give "error", "Warning" and 1 give "warning", "Information"
\* and 0 give "note", every other value and a missing severity give "warning".
C3_SeverityTable ==
    pc = "sarif_done" =>
        /\ Len(sarif.runs[1].results) = Len(ps_results)
        /\ \A i \in DOMAIN ps_results :
              LET f == ps_results[i]
                  level == sarif.runs[1].results[i].level
              IN  IF "Severity" \notin DOMAIN f THEN level = "warning"
                  ELSE IF f.Severity \in {JStr("Error"), JInt(2)}
                       THEN level = "error"
                  ELSE IF f.Severity \in {JStr("Information"), JInt(0)}
                       THEN level = "note"
                  ELSE level = "warning"

\* One list holds a numeric alias, an unrecognised severity and a finding
\* without severity, mapped to error, warning and warning.
C3_Witness ==
    /\ pc = "sarif_done"
    /\ \E i, j, k \in DOMAIN ps_results :
          /\ Get(ps_results[i], "Severity", JStr("")) = JInt(2)
          /\ sarif.runs[1].results[i].level = "error"
          /\ Get(ps_results[j], "Severity", JStr("")) = JStr("ParseError")
          /\ sarif.runs[1].results[j].level = "warning"
          /\ "Severity" \notin DOMAIN ps_results[k]
          /\ sarif.runs[1].results[k].level = "warning"

\* C19: convert_to_sarif([], files) gives a document of version 2.1.0 with
\* exactly one run, no result, no rule-metadata entry and len(files) artifact
\* entries, one per input path in order, duplicates included; with findings
\* too there is one run and one artifact entry per input path.
C19_EmptyFindingsDocument ==
    pc = "sarif_done" =>
        /\ sarif.version = "2.1.0"
        /\ Len(sarif.runs) = 1
        /\ Len(sarif.runs[1].artifacts) = Len(files)
        /\ \A i \in DOMAIN files :
              sarif.runs[1].artifacts[i] = [uri |-> <<"file://", files[i]>>]
        /\ ps_results = <<>> =>
              /\ sarif.runs[1].results = <<>>
              /\ sarif.runs[1].rules = <<>>

\* No finding and the same path twice: two artifact entries, nothing else.
C19_Witness ==
    /\ pc = "sarif_done"
    /\ ps_results = <<>>
    /\ files = <<"a.ps1", "a.ps1">>
    /\ Len(sarif.runs) = 1
    /\ Len(sarif.runs[1].artifacts) = 2
    /\ sarif.runs[1].results = <<>>

\* C20: the tags of a rule-metadata entry are "security" if the security flag
\* of the first finding of the rule is set, followed by the lower-cased
\* category of that finding if it has one and it equals no tag already
\* present; the list holds no duplicate (flag plus category "Security" gives
\* the single tag "security") and is empty without flag and category.
C20_RuleTags ==
    pc = "sarif_done" =>
        \A n \in DOMAIN sarif.runs[1].rules :
            LET e == sarif.runs[1].rules[n]
                f == ps_results[FirstWithRule(ps_results, e.id, 1)]
                flag == Get(f, "IsSecurityRule", FALSE)
                cat == Get(f, "RuleCategory", "")
                security == IF flag THEN <<"security">> ELSE <<>>
            IN  /\ e.tags = IF cat # "" /\ ~(flag /\ Lower(cat) = "security")
                            THEN Append(security, Lower(cat))
                            ELSE security
                /\ \A i, j \in DOMAIN e.tags : e.tags[i] = e.tags[j] => i = j
                /\ (flag /\ cat = "Security") => e.tags = <<"security">>
                /\ (~flag /\ cat = "") => e.tags = <<>>

\* One rule first seen with the flag and category "Security", the other with
\* the flag and category "Style": one tag and two tags.
C20_Witness ==
    /\ pc = "sarif_done"
    /\ Len(sarif.runs[1].rules) = 2
    /\ Get(ps_results[1], "IsSecurityRule", FALSE)
    /\ Get(ps_results[1], "RuleCategory", "") = "Security"
    /\ sarif.runs[1].rules[1].tags = <<"security">>
    /\ sarif.runs[1].rules[2].tags = <<"security", "style">>

\* C30: convert_to_sarif emits exactly one result per input finding, in
\* input order, each with that finding's rule identifier, message, line and
\* column; a single finding handed as one record counts as a one-element
\* list; the rule deduplication drops, merges or reorders no finding.
C30_OneResultPerFinding ==
    pc = "sarif_done" =>
        /\ Len(sarif.runs[1].results) = Len(ps_results)
        /\ \A i \in DOMAIN ps_results :
              LET f == ps_results[i]
                  r == sarif.runs[1].results[i]
              IN  /\ r.ruleId = Get(f, "RuleName", "")
                  /\ r.message = Get(f, "Message", "")
                  /\ r.line = Get(f, "Line", 1)
                  /\ r.column = Get(f, "Column", 1)

\* A single finding handed as the record itself: one result, its data kept.
C30_Witness ==
    /\ pc = "sarif_done"
    /\ call.ps_results.type = "dict"
    /\ Len(ps_results) = 1
    /\ ps_results[1].Message = "m4"
    /\ Len(sarif.runs[1].results) = 1
    /\ sarif.runs[1].results[1].ruleId = "PSAvoidLongLines"
    /\ sarif.runs[1].results[1].line = 7

(***************************************************************************)
(* constants.py: the rule allow-lists of the six categories                *)
(***************************************************************************)
SECURITY_RULES ==
    <<"AvoidUsingPlainTextForPassword", "AvoidUsingComputerNameHardcoded",
      "AvoidUsingConvertToSecureStringWithPlainText",
      "AvoidUsingInvokeExpression", "UseProcessBlockForPipelineCommand",
      "PSAvoidUsingUserNameAndPasswordParams", "PSUsePSCredentialType",
      "PSAvoidUsingUnencryptedNetworkResources", "PSAvoidGlobalAliases",
      "PSAvoidGlobalFunctions", "PSAvoidUsingBrokenHashAlgorithms">>

STYLE_RULES ==
    <<"PSAlignAssignmentStatement", "PSPlaceCloseBrace", "PSPlaceOpenBrace",
      "PSUseConsistentIndentation", "PSUseConsistentWhitespace",
      "PSUseCorrectCasing", "PSAvoidTrailingWhitespace",
      "PSAvoidSemicolonsAsLineTerminators", "PSAvoidLongLines">>

PERFORMANCE_RULES ==
    <<"PSAvoidUsingCmdletAliases", "PSAvoidUsingInvokeExpression",
      "PSAvoidUsingPositionalParameters",
      "PSUseLiteralInitializerForHashtable",
      "PSUseProcessBlockForPipelineCommand">>

BEST_PRACTICES_RULES ==
    <<"PSUseApprovedVerbs", "PSAvoidDefaultValueForMandatoryParameter",
      "PSAvoidDefaultValueSwitchParameter", "PSAvoidGlobalVars",
      "PSAvoidUsingWriteHost", "PSProvideCommentHelp", "PSUseSingularNouns",
      "PSUseShouldProcessForStateChangingFunctions",
      "PSUseSupportsShouldProcess", "PSShouldProcess">>

DSC_RULES ==
    <<"PSDSCDscExamplesPresent", "PSDSCDscTestsPresent",
      "PSDSCReturnCorrectTypesForDSCFunctions",
      "PSDSCUseIdenticalMandatoryParametersForDSC",
      "PSDSCUseIdenticalParametersForDSC",
      "PSDSCStandardDSCFunctionsInResource",
      "PSDSCUseVerboseMessageInDSCResource">>

COMPATIBILITY_RULES ==
    <<"PSUseCompatibleCommands", "PSUseCompatibleSyntax",
      "PSUseCompatibleTypes", "PSUseCompatibleCmdlets">>

(***************************************************************************)
(* scripts.escape_powershell_path and build_powershell_file_array.  A      *)
(* string is the sequence of its characters.                               *)
(***************************************************************************)
MaxLen == 2

\* str.replace(old, new) for a non-empty old: the occurrences of old, found
\* from the left and not overlapping, are replaced by new.
RECURSIVE replace(_, _, _)
replace(text, old, new) ==
    IF Len(text) < Len(old) THEN text
    ELSE IF SubSeq(text, 1, Len(old)) = old
    THEN new \o replace(SubSeq(text, Len(old) + 1, Len(text)), old, new)
    ELSE <<Head(text)>> \o replace(Tail(text), old, new)

\* Only the first single quote of the path doubled.
RECURSIVE escape_powershell_path_first_quote(_)
escape_powershell_path_first_quote(path) ==
    IF path = <<>> THEN <<>>
    ELSE IF Head(path) = "'" THEN <<"'", "'">> \o Tail(path)
    ELSE <<Head(path)>> \o escape_powershell_path_first_quote(Tail(path))

\* path.replace("'", "''")
escape_powershell_path(path) == replace(path, <<"'">>, <<"'", "'">>)

\* sep.join(items)
RECURSIVE join(_, _)
join(sep, items) ==
    IF items = <<>> THEN <<>>
    ELSE IF Len(items) = 1 THEN items[1]
    ELSE items[1] \o sep \o join(sep, Tail(items))

\* f"'{text}'"
quoted(text) == <<"'">> \o text \o <<"'">>

\* ",".join(f"'{escape_powershell_path(f)}'" for f in files)
build_powershell_file_array(file_list) ==
    join(<<",">>,
         [i \in DOMAIN file_list |->
             quoted(escape_powershell_path(file_list[i]))])

\* ", ".join(f"'{rule}'" for rule in include_rules)
include_rules_list(include_rules) ==
    join(<<",", " ">>, [i \in DOMAIN include_rules |-> quoted(include_rules[i])])

\* ", ".join(f"'{rule}'" for rule in exclude_rules)
exclude_rules_list(exclude_rules) ==
    join(<<",", " ">>, [i \in DOMAIN exclude_rules |-> quoted(exclude_rules[i])])

\* str.split(sep) for a separator of one character.
RECURSIVE split(_, _)
split(text, sep) ==
    IF \A i \in DOMAIN text : text[i] # sep THEN <<text>>
    ELSE LET i == CHOOSE k \in DOMAIN text :
                      text[k] = sep /\ \A j \in 1..(k - 1) : text[j] # sep
         IN  <<SubSeq(text, 1, i - 1)>>
                 \o split(SubSeq(text, i + 1, Len(text)), sep)

(***************************************************************************)
(* How PowerShell reads the text put between @( and ): single-quoted       *)
(* literals separated by commas, blanks allowed around them.  Inside a     *)
(* literal '' stands for one quote and a single ' ends the literal.        *)
(***************************************************************************)
\* The literal whose opening quote is just before position i.
RECURSIVE read_literal(_, _, _)
read_literal(text, i, value) ==
    IF i > Len(text) THEN [value |-> value, next |-> i, closed |-> FALSE]
    ELSE IF text[i] # "'" THEN read_literal(text, i + 1, Append(value, text[i]))
    ELSE IF i < Len(text) /\ text[i + 1] = "'"
    THEN read_literal(text, i + 2, Append(value, "'"))
    ELSE [value |-> value, next |-> i + 1, closed |-> TRUE]

\* The elements read from position i on; ok is false when the text is not a
\* list of literals: a literal left open, or text outside the literals.
RECURSIVE read_array(_, _, _, _)
read_array(text, i, values, expect) ==
    IF i > Len(text)
    THEN [values |-> values, ok |-> (expect = "separator" \/ values = <<>>)]
    ELSE IF text[i] = " " THEN read_array(text, i + 1, values, expect)
    ELSE IF expect = "separator"
    THEN IF text[i] = ","
         THEN read_array(text, i + 1, values, "element")
         ELSE [values |-> values, ok |-> FALSE]
    ELSE IF text[i] = "'"
    THEN LET literal == read_literal(text, i + 1, <<>>)
         IN  IF literal.closed
             THEN read_array(text, literal.next,
                             Append(values, literal.value), "separator")
             ELSE [values |-> values, ok |-> FALSE]
    ELSE [values |-> values, ok |-> FALSE]

read_array_literal(text) == read_array(text, 1, <<>>, "element")

(***************************************************************************)
(* The file names of the other specifications are kept whole; Chars gives  *)
(* their characters.                                                       *)
(***************************************************************************)
Chars(name) ==
    CASE name = "a.ps1" -> <<"a", ".", "p", "s", "1">>
      [] name = "it's.psm1" -> <<"i", "t", "'", "s", ".", "p", "s", "m", "1">>
      [] name = "it''s.psm1"
            -> <<"i", "t", "'", "'", "s", ".", "p", "s", "m", "1">>
      [] name = "c.psd1" -> <<"c", ".", "p", "s", "d", "1">>
      [] name = "d.ps1" -> <<"d", ".", "p", "s", "1">>

Name(chars) ==
    CHOOSE name \in {"a.ps1", "it's.psm1", "it''s.psm1", "c.psd1", "d.ps1"} :
        Chars(name) = chars

\* The text between the quotes of each literal of files_param.
file_literals(file_list) ==
    [i \in DOMAIN file_list |->
        Name(escape_powershell_path(Chars(file_list[i])))]

\* The string a single-quoted PowerShell literal denotes.
literal_value(text) ==
    Name(read_array_literal(quoted(Chars(text))).values[1])

(***************************************************************************)
(* scripts.generate_analysis_script.  The script text is kept as its       *)
(* parts: the array literal of $files, the argument after -Path $file, the *)
(* statements of filter_logic in order, and the output code chosen.        *)
(***************************************************************************)
Range(s) == {s[i] : i \in DOMAIN s}

\* A python list used as a condition: None and [] are false.
Truthy(list) == list # None /\ list # <<>>

\* $result = $result | Where-Object { <test> }
WhereObject(test, list_var, list) ==
    [cmd |-> "Where-Object", test |-> test, list_var |-> list_var,
     list |-> list, name |-> "", value |-> ""]

\* $_ | Add-Member -MemberType NoteProperty -Name name -Value value -Force
AddMember(name, value) ==
    [cmd |-> "Add-Member", test |-> "", list_var |-> "", list |-> <<>>,
     name |-> name, value |-> value]

\* Where-Object { $_.Severity -eq "Warning" -or $_.Severity -eq "Error" }
severity_filter == WhereObject("Severity -eq", "", <<"Warning", "Error">>)

\* Warning handled like Error: the argument is passed and nothing filtered.
severity_policy_warning_as_argument(severity) ==
    IF severity = "All" \/ severity = "Information"
    THEN [severity_param |-> "", filter_logic |-> <<>>]
    ELSE IF severity = "Warning"
    THEN [severity_param |-> "-Severity Warning", filter_logic |-> <<>>]
    ELSE IF severity = "Error"
    THEN [severity_param |-> "-Severity Error", filter_logic |-> <<>>]
    ELSE [severity_param |-> "", filter_logic |-> <<severity_filter>>]

\* Error handled by a post-filter instead of the argument.
severity_policy_error_as_filter(severity) ==
    IF severity = "All" \/ severity = "Information"
    THEN [severity_param |-> "", filter_logic |-> <<>>]
    ELSE IF severity = "Error"
    THEN [severity_param |-> "",
          filter_logic |-> <<WhereObject("Severity -eq", "", <<"Error">>)>>]
    ELSE [severity_param |-> "", filter_logic |-> <<severity_filter>>]

\* Information handled apart from All, by a post-filter.
severity_policy_information_filtered(severity) ==
    IF severity = "All"
    THEN [severity_param |-> "", filter_logic |-> <<>>]
    ELSE IF severity = "Information"
    THEN [severity_param |-> "",
          filter_logic |-> <<WhereObject("Severity -eq", "",
                                <<"Information", "Warning", "Error">>)>>]
    ELSE IF severity = "Error"
    THEN [severity_param |-> "-Severity Error", filter_logic |-> <<>>]
    ELSE [severity_param |-> "", filter_logic |-> <<severity_filter>>]

\* "Handle different severity levels": severity_param and filter_logic.
severity_policy(severity) ==
    IF severity = "All" \/ severity = "Information"
    THEN [severity_param |-> "", filter_logic |-> <<>>]
    ELSE IF severity = "Warning"
    THEN [severity_param |-> "", filter_logic |-> <<severity_filter>>]
    ELSE IF severity = "Error"
    THEN [severity_param |-> "-Severity Error", filter_logic |-> <<>>]
    ELSE [severity_param |-> "", filter_logic |-> <<severity_filter>>]

\* One category block: the allow-list filter, then the category marker(s).
category_block(rules, category, security) ==
    <<WhereObject("-contains", "$categoryRules", rules)>>
    \o (IF security THEN <<AddMember("IsSecurityRule", "$true")>> ELSE <<>>)
    \o <<AddMember("RuleCategory", category)>>

\* The blocks of all the flags set, one after the other.
rule_category_filter_all_flags(a) ==
    (IF a.security_only THEN category_block(SECURITY_RULES, "Security", TRUE)
     ELSE <<>>)
    \o (IF a.style_only THEN category_block(STYLE_RULES, "Style", FALSE)
        ELSE <<>>)
    \o (IF a.performance_only
        THEN category_block(PERFORMANCE_RULES, "Performance", FALSE)
        ELSE <<>>)
    \o (IF a.best_practices_only
        THEN category_block(BEST_PRACTICES_RULES, "BestPractices", FALSE)
        ELSE <<>>)
    \o (IF a.dsc_only THEN category_block(DSC_RULES, "DSC", FALSE) ELSE <<>>)
    \o (IF a.compatibility_only
        THEN category_block(COMPATIBILITY_RULES, "Compatibility", FALSE)
        ELSE <<>>)

\* "Add rule category filtering if requested": the if/elif chain.
rule_category_filter(a) ==
    IF a.security_only
    THEN category_block(SECURITY_RULES, "Security", TRUE)
    ELSE IF a.style_only
    THEN category_block(STYLE_RULES, "Style", FALSE)
    ELSE IF a.performance_only
    THEN category_block(PERFORMANCE_RULES, "Performance", FALSE)
    ELSE IF a.best_practices_only
    THEN category_block(BEST_PRACTICES_RULES, "BestPractices", FALSE)
    ELSE IF a.dsc_only
    THEN category_block(DSC_RULES, "DSC", FALSE)
    ELSE IF a.compatibility_only
    THEN category_block(COMPATIBILITY_RULES, "Compatibility", FALSE)
    ELSE <<>>

include_filter(rules) == WhereObject("-contains", "$includeRules", rules)
exclude_filter(rules) == WhereObject("-notcontains", "$excludeRules", rules)

\* Both filters appended when both lists are given.
include_exclude_filter_both(a) ==
    (IF Truthy(a.include_rules) THEN <<include_filter(a.include_rules)>>
     ELSE <<>>)
    \o (IF Truthy(a.exclude_rules) THEN <<exclude_filter(a.exclude_rules)>>
        ELSE <<>>)

\* "Include/exclude specific rules if specified": two ifs assigning the same
\* variable, the second overwriting the first.
include_exclude_filter(a) ==
    LET after_include ==
            IF Truthy(a.include_rules)
            THEN <<include_filter(a.include_rules)>> ELSE <<>>
    IN  IF Truthy(a.exclude_rules)
        THEN <<exclude_filter(a.exclude_rules)>> ELSE after_include

\* "Choose output format"
output_code(json_output) == IF json_output THEN "json" ELSE "text"

generate_analysis_script(files_param, a) ==
    LET policy == severity_policy(a.severity)
    IN  [files |-> files_param,
         severity_param |-> policy.severity_param,
         filter_logic |-> policy.filter_logic \o rule_category_filter(a)
                            \o include_exclude_filter(a),
         output_code |-> output_code(a.json_output)]

(***************************************************************************)
(* What the synthesized script does when PowerShell runs it                *)
(* (the template of generate_analysis_script, scripts.py 302-313).         *)
(***************************************************************************)
HOST_ERROR_EXIT == 250

\* Invoke-ScriptAnalyzer -Path $file {severity_param}: the findings of the
\* file, restricted to one severity when -Severity is passed.
invoke_script_analyzer(found, severity_param) ==
    LET IsError(f) == f.Severity = "Error"
        IsWarning(f) == f.Severity = "Warning"
    IN  CASE severity_param = "-Severity Error" -> SelectSeq(found, IsError)
          [] severity_param = "-Severity Warning" -> SelectSeq(found, IsWarning)
          [] OTHER -> found

\* Add-Member -Force on one object.
SetMember(f, name, value) ==
    [k \in DOMAIN f \cup {name} |-> IF k = name THEN value ELSE f[k]]

\* One statement of filter_logic applied to $result.
apply_statement(result, st) ==
    LET Keep(f) ==
            CASE st.test = "Severity -eq" -> f.Severity \in Range(st.list)
              [] st.test = "-contains" -> f.RuleName \in Range(st.list)
              [] st.test = "-notcontains" -> f.RuleName \notin Range(st.list)
              [] OTHER -> TRUE
    IN  IF st.cmd = "Where-Object" THEN SelectSeq(result, Keep)
        ELSE [i \in DOMAIN result |-> SetMember(result[i], st.name, st.value)]

RECURSIVE apply_filter_logic(_, _, _)
apply_filter_logic(result, filter_logic, i) ==
    IF i > Len(filter_logic) THEN result
    ELSE apply_filter_logic(apply_statement(result, filter_logic[i]),
                            filter_logic, i + 1)

\* $issues = $result on every file, instead of += on the files with findings.
collect_last_file_only(issue_list, result) == result

\* if ($result) { $issues += $result }
collect(issue_list, result) ==
    IF result # <<>> THEN issue_list \o result ELSE issue_list

\* The body of the foreach loop for one file.
analyze_file(sc, issue_list, found) ==
    collect(issue_list,
            apply_filter_logic(invoke_script_analyzer(found, sc.severity_param),
                               sc.filter_logic, 1))

\* The output code: what is written to stdout and the exit status.
script_output(sc, issue_list) ==
    IF Len(issue_list) > 0
    THEN [state |-> "exited", caught |-> FALSE, returncode |-> 1,
          stdout |-> IF sc.output_code = "json"
                     THEN IF Len(issue_list) = 1 THEN "json object"
                          ELSE "json array"
                     ELSE "report",
          items |-> issue_list]
    ELSE [state |-> "exited", caught |-> FALSE, returncode |-> 0,
          stdout |-> IF sc.output_code = "json" THEN "blank"
                     ELSE "No issues found",
          items |-> <<>>]

\* The catch blocks of _generate_error_handling.
error_handling ==
    [state |-> "exited", caught |-> TRUE, returncode |-> HOST_ERROR_EXIT,
     stdout |-> "blank", items |-> <<>>]

(***************************************************************************)
(* SpecScript: every combination of the arguments of                       *)
(* generate_analysis_script, and the run of the script it returns.         *)
(***************************************************************************)
SeverityInputs == {"All", "Information", "Warning", "Error", "Verbose"}

RuleListInputs(rule) == {None, <<>>, <<rule>>}

ScriptArgs ==
    [severity : SeverityInputs,
     security_only : BOOLEAN, style_only : BOOLEAN,
     performance_only : BOOLEAN, best_practices_only : BOOLEAN,
     dsc_only : BOOLEAN, compatibility_only : BOOLEAN,
     include_rules : RuleListInputs("PSAvoidLongLines"),
     exclude_rules : RuleListInputs("PSAvoidUsingWriteHost"),
     json_output : BOOLEAN]

Paths == <<"a.ps1", "it's.psm1", "c.psd1", "d.ps1">>

FileLists == {SubSeq(Paths, 1, n) : n \in 0..MaxFiles}

Diag(rule, sev) == [RuleName |-> rule, Severity |-> sev]

\* What the analyzer may find in one file.
AnalyzerOutputs ==
    {<<>>,
     <<Diag("AvoidUsingInvokeExpression", "Error")>>,
     <<Diag("PSAvoidLongLines", "Warning"),
       Diag("PSAvoidUsingWriteHost", "Information"),
       Diag("PSReviewUnusedParameter", "Warning"),
       Diag("PSAvoidUsingCmdletAliases", "Information")>>,
     <<Diag("PSDSCDscTestsPresent", "Error"),
       Diag("PSUseCompatibleSyntax", "Warning"),
       Diag("PSAvoidLongLines", "Error"),
       Diag("PSUsePSCredentialType", "Information"),
       Diag("PSAvoidUsingWriteHost", "ParseError")>>}

InFile(found, file) ==
    [i \in DOMAIN found |->
        [RuleName |-> found[i].RuleName, Severity |-> found[i].Severity,
         ScriptName |-> file]]

InitScript ==
    /\ pc = "script_args"
    /\ args \in ScriptArgs
    /\ ps_results = <<>>
    /\ files = <<>>
    /\ sarif = NoDoc
    /\ script = NoScript
    /\ analyzed = <<>>
    /\ issues = <<>>
    /\ formatted = <<>>
    /\ exitCode = 0
    /\ proc = NoProc
    /\ call = NoCall
    /\ ret = None
    /\ console = <<>>
    /\ out_file = NoOutput
    /\ started = <<>>
    /\ main = NoMain

\* generate_analysis_script(files_param, **args); the interpreter then
\* enters the try block of the script and sets $files and $issues.
GenerateAnalysisScript ==
    /\ pc = "script_args"
    /\ \E file_list \in FileLists :
          /\ files' = file_list
          /\ script' = generate_analysis_script(file_literals(file_list),
                                                args)
    /\ pc' = "script_loop"
    /\ UNCHANGED <<sarifVars, args, scriptRunVars, formatVars, proc, runVars>>

\* One turn of foreach ($file in $files).
ScriptAnalyzeFile ==
    /\ pc = "script_loop"
    /\ Len(analyzed) < Len(script.files)
    /\ \E out \in AnalyzerOutputs :
          LET file == literal_value(script.files[Len(analyzed) + 1])
              found == InFile(out, file)
          IN  /\ analyzed' = Append(analyzed, found)
              /\ issues' = analyze_file(script, issues, found)
    /\ UNCHANGED <<pc, files, sarifVars, genVars, formatVars, proc, runVars>>

\* A terminating error inside the try block.
ScriptThrow ==
    /\ pc = "script_loop"
    /\ proc' = error_handling
    /\ pc' = "script_exit"
    /\ UNCHANGED <<files, sarifVars, genVars, scriptRunVars, formatVars,
                   runVars>>

\* The loop is over: the output code runs and the script exits.
ScriptOutput ==
    /\ pc = "script_loop"
    /\ Len(analyzed) = Len(script.files)
    /\ proc' = script_output(script, issues)
    /\ pc' = "script_exit"
    /\ UNCHANGED <<files, sarifVars, genVars, scriptRunVars, formatVars,
                   runVars>>

NextScript ==
    GenerateAnalysisScript \/ ScriptAnalyzeFile \/ ScriptThrow \/ ScriptOutput

SpecScript == InitScript /\ [][NextScript]_vars

(***************************************************************************)
(* Properties of the synthesized script                                    *)
(***************************************************************************)
Generated == pc \in {"script_loop", "script_exit"}

RECURSIVE Concat(_)
Concat(seqs) == IF seqs = <<>> THEN <<>> ELSE Head(seqs) \o Concat(Tail(seqs))

\* The six category flags in the order of the claim, and their allow-lists.
CategoryFlags(a) ==
    <<a.security_only, a.style_only, a.performance_only,
      a.best_practices_only, a.dsc_only, a.compatibility_only>>

CategoryLists ==
    <<SECURITY_RULES, STYLE_RULES, PERFORMANCE_RULES, BEST_PRACTICES_RULES,
      DSC_RULES, COMPATIBILITY_RULES>>

AnyCategoryFlag(a) == \E i \in 1..6 : CategoryFlags(a)[i]

FirstCategoryFlag(a) ==
    CHOOSE i \in 1..6 :
        CategoryFlags(a)[i] /\ \A j \in 1..(i - 1) : ~CategoryFlags(a)[j]

\* A finding passes every filter that is active under arguments a.
PassesActiveFilters(f, a) ==
    /\ CASE a.severity \in {"All", "Information"} -> TRUE
         [] a.severity = "Error" -> f.Severity = "Error"
         [] OTHER -> f.Severity \in {"Warning", "Error"}
    /\ AnyCategoryFlag(a) =>
          f.RuleName \in Range(CategoryLists[FirstCategoryFlag(a)])
    /\ IF Truthy(a.exclude_rules) THEN f.RuleName \notin Range(a.exclude_rules)
       ELSE Truthy(a.include_rules) => f.RuleName \in Range(a.include_rules)

ExpectedIssues ==
    LET Pass(f) == PassesActiveFilters(f, args)
    IN  SelectSeq(Concat(analyzed), Pass)

\* $issues without the members added by the category block.
CollectedIssues ==
    [i \in DOMAIN issues |->
        [RuleName |-> issues[i].RuleName, Severity |-> issues[i].Severity,
         ScriptName |-> issues[i].ScriptName]]

\* C5: the script collects, over all files in order, exactly the findings
\* that pass every active filter; it exits 1 iff the collection is non-empty,
\* 0 if it is empty, and 250 when a host-runtime error is caught.
C5_ScriptCollectsAndExits ==
    pc = "script_exit" =>
        IF proc.caught THEN proc.returncode = 250
        ELSE /\ Len(analyzed) = Len(files)
             /\ \A i \in DOMAIN analyzed :
                   \A k \in DOMAIN analyzed[i] :
                       analyzed[i][k].ScriptName = files[i]
             /\ CollectedIssues = ExpectedIssues
             /\ proc.returncode = (IF ExpectedIssues # <<>> THEN 1 ELSE 0)

\* Two files analysed under a severity policy, a category allow-list and an
\* exclude list: some findings of both files are collected, others dropped.
C5_Witness ==
    /\ pc = "script_exit"
    /\ ~proc.caught
    /\ args.severity = "Warning"
    /\ args.style_only /\ ~args.security_only
    /\ Truthy(args.exclude_rules)
    /\ Len(analyzed) = 2
    /\ Len(issues) = 2
    /\ issues[1].ScriptName = "a.ps1" /\ issues[2].ScriptName = "it's.psm1"
    /\ Len(Concat(analyzed)) > 2
    /\ proc.returncode = 1

\* The statements of filter_logic that test the severity.
SeverityFilters ==
    LET IsSeverityTest(st) == st.cmd = "Where-Object" /\ st.test = "Severity -eq"
    IN  SelectSeq(script.filter_logic, IsSeverityTest)

SeverityProbe ==
    <<Diag("PSAvoidLongLines", "Information"),
      Diag("PSAvoidLongLines", "Warning"),
      Diag("PSAvoidLongLines", "Error"),
      Diag("PSAvoidLongLines", "ParseError")>>

\* C6: for severity = Warning, whatever the other options, no -Severity
\* argument is passed and a post-filter keeps exactly the Warning and Error
\* findings.
C6_WarningPostFilter ==
    (Generated /\ args.severity = "Warning") =>
        /\ script.severity_param = ""
        /\ Len(SeverityFilters) = 1
        /\ script.filter_logic[1] = SeverityFilters[1]
        /\ apply_statement(SeverityProbe, SeverityFilters[1])
              = <<SeverityProbe[2], SeverityProbe[3]>>

C6_Witness ==
    /\ Generated
    /\ args.severity = "Warning"
    /\ args.dsc_only
    /\ Truthy(args.include_rules)
    /\ args.json_output
    /\ Len(SeverityFilters) = 1

\* The Where-Object clauses of the script: those of filter_logic (the
\* template, the output code and the error handling contain none).
WhereObjectClauses ==
    LET IsWhere(st) == st.cmd = "Where-Object"
    IN  SelectSeq(script.filter_logic, IsWhere)

\* C7: for severity = Error the -Severity Error argument is passed and no
\* severity post-filter added; with no category and no include/exclude option
\* the script has no Where-Object clause at all.
C7_ErrorArgument ==
    (Generated /\ args.severity = "Error") =>
        /\ script.severity_param = "-Severity Error"
        /\ SeverityFilters = <<>>
        /\ (~AnyCategoryFlag(args) /\ ~Truthy(args.include_rules)
              /\ ~Truthy(args.exclude_rules))
           => WhereObjectClauses = <<>>

C7_Witness ==
    /\ pc = "script_exit"
    /\ args.severity = "Error"
    /\ ~AnyCategoryFlag(args)
    /\ args.include_rules = None /\ args.exclude_rules = None
    /\ script.severity_param = "-Severity Error"
    /\ WhereObjectClauses = <<>>
    /\ Len(Concat(analyzed)) > Len(issues)
    /\ Len(issues) > 0

\* C8: for severity in {All, Information} no -Severity argument is passed and
\* no severity post-filter added, and the scripts for All and for Information
\* are identical for the same other arguments.
C8_AllAndInformationAlike ==
    (Generated /\ args.severity \in {"All", "Information"}) =>
        /\ script.severity_param = ""
        /\ SeverityFilters = <<>>
        /\ script = generate_analysis_script(
                        script.files,
                        [args EXCEPT !.severity =
                            IF @ = "All" THEN "Information" ELSE "All"])

C8_Witness ==
    /\ Generated
    /\ args.severity = "Information"
    /\ args.performance_only
    /\ Truthy(args.exclude_rules)
    /\ script.severity_param = ""
    /\ SeverityFilters = <<>>
    /\ Len(script.filter_logic) = 3

\* The category allow-list filters of the script.
CategoryFilters ==
    LET IsCategory(st) ==
            st.cmd = "Where-Object" /\ st.list_var = "$categoryRules"
    IN  SelectSeq(script.filter_logic, IsCategory)

\* C9: for every combination of the six category flags at most one category
\* allow-list is applied: that of the first flag set in the order security,
\* style, performance, best-practices, DSC, compatibility; none when no flag
\* is set.
C9_FirstCategoryWins ==
    Generated =>
        IF AnyCategoryFlag(args)
        THEN /\ Len(CategoryFilters) = 1
             /\ CategoryFilters[1].test = "-contains"
             /\ CategoryFilters[1].list = CategoryLists[FirstCategoryFlag(args)]
        ELSE CategoryFilters = <<>>

\* --security-only and --style-only together: the security list alone.
C9_Witness ==
    /\ Generated
    /\ args.security_only /\ args.style_only
    /\ Len(CategoryFilters) = 1
    /\ CategoryFilters[1].list = SECURITY_RULES

IncludeFilters ==
    LET IsInclude(st) ==
            st.cmd = "Where-Object" /\ st.list_var = "$includeRules"
    IN  SelectSeq(script.filter_logic, IsInclude)

ExcludeFilters ==
    LET IsExclude(st) ==
            st.cmd = "Where-Object" /\ st.list_var = "$excludeRules"
    IN  SelectSeq(script.filter_logic, IsExclude)

\* C10: the script holds at most one of the include-list and exclude-list
\* filters: the include filter when only a non-empty include list is given,
\* the exclude filter when a non-empty exclude list is given (the include
\* list then being dropped), neither when both are absent or empty.
C10_IncludeOrExclude ==
    Generated =>
        /\ Len(IncludeFilters) + Len(ExcludeFilters) <= 1
        /\ IF Truthy(args.exclude_rules)
           THEN /\ IncludeFilters = <<>>
                /\ Len(ExcludeFilters) = 1
                /\ ExcludeFilters[1].test = "-notcontains"
                /\ ExcludeFilters[1].list = args.exclude_rules
           ELSE IF Truthy(args.include_rules)
           THEN /\ ExcludeFilters = <<>>
                /\ Len(IncludeFilters) = 1
                /\ IncludeFilters[1].test = "-contains"
                /\ IncludeFilters[1].list = args.include_rules
           ELSE IncludeFilters = <<>> /\ ExcludeFilters = <<>>

\* Both lists given and non-empty: the exclude filter alone is in the script.
C10_Witness ==
    /\ Generated
    /\ Truthy(args.include_rules) /\ Truthy(args.exclude_rules)
    /\ IncludeFilters = <<>>
    /\ Len(ExcludeFilters) = 1

(***************************************************************************)
(* scripts.generate_format_script and the run of the format script         *)
(***************************************************************************)
generate_format_script(files_param) ==
    [files |-> files_param, output_code |-> "format"]

\* Invoke-Formatter ends with a terminating error.
Throws == "throws"

\* The texts of the model without their letter case.
ToLowerInvariant(text) ==
    CASE text = "Get-Date" -> "get-date"
      [] OTHER -> text

\* $formatted -ne $originalContent: PowerShell compares strings without
\* regard to letter case unless the operator is -cne.
ps_ne(left, right) == ToLowerInvariant(left) # ToLowerInvariant(right)

\* The body of the foreach loop for one file: what is in the file
\* afterwards, whether Set-Content replaced it, whether the catch block ran.
format_file(run) ==
    IF run.result = Throws
    THEN [content |-> run.original, rewritten |-> FALSE, failed |-> TRUE]
    ELSE IF ~ps_ne(run.result, run.original)
    THEN [content |-> run.original, rewritten |-> FALSE, failed |-> FALSE]
    ELSE IF run.writable
    THEN [content |-> run.result, rewritten |-> TRUE, failed |-> FALSE]
    ELSE [content |-> run.original, rewritten |-> FALSE, failed |-> TRUE]

\* What a file holds, what Invoke-Formatter makes of it, and whether
\* Set-Content can write the file.
FormatRuns ==
    {[original |-> "Get-Date", result |-> "Get-Date", writable |-> TRUE],
     [original |-> "get-date", result |-> "Get-Date", writable |-> TRUE],
     [original |-> "if($x){}", result |-> "if ($x) {}", writable |-> TRUE],
     [original |-> "if($x){}", result |-> "if ($x) {}", writable |-> FALSE],
     [original |-> "if (", result |-> Throws, writable |-> TRUE]}

\* One turn of the foreach loop of the format script: the file is left
\* alone, rewritten, or the try block fails and $exitCode becomes 1.
FormatFile ==
    /\ pc = "format_loop"
    /\ Len(formatted) < Len(script.files)
    /\ \E run \in FormatRuns :
          LET after == format_file(run)
          IN  /\ formatted' = Append(formatted,
                    [file |-> literal_value(script.files[Len(formatted) + 1]),
                     original |-> run.original, result |-> run.result,
                     content |-> after.content,
                     rewritten |-> after.rewritten, failed |-> after.failed])
              /\ exitCode' = IF after.failed THEN 1 ELSE exitCode
    /\ UNCHANGED <<pc, files, sarifVars, genVars, scriptRunVars, proc, runVars>>

\* exit $exitCode
FormatExit ==
    /\ pc = "format_loop"
    /\ Len(formatted) = Len(script.files)
    /\ proc' = [state |-> "exited", caught |-> FALSE, returncode |-> exitCode,
                stdout |-> "format log", items |-> <<>>]
    /\ pc' = "script_exit"
    /\ UNCHANGED <<files, sarifVars, genVars, scriptRunVars, formatVars,
                   runVars>>

(***************************************************************************)
(* core.run_script_analyzer                                                *)
(***************************************************************************)
\* The number PowerShell writes for a DiagnosticSeverity.
severity_number(sev) ==
    CASE sev = "Information" -> 0
      [] sev = "Warning" -> 1
      [] sev = "Error" -> 2
      [] OTHER -> 3

\* $issues | ConvertTo-Json -Depth 4, read back by json.loads: one record
\* per issue, the severity as a number, $true as true.
issue_record(f) ==
    [k \in DOMAIN f \cup {"ScriptPath"} |->
        CASE k = "Severity" -> JInt(severity_number(f.Severity))
          [] k = "IsSecurityRule" -> f[k] = "$true"
          [] k = "ScriptPath" -> f.ScriptName
          [] OTHER -> f[k]]

\* Whatever is not JSON read as the empty list.
json_loads_lenient(p) ==
    CASE p.stdout = "json array" ->
            [ok |-> TRUE, type |-> "list",
             value |-> [i \in DOMAIN p.items |-> issue_record(p.items[i])]]
      [] p.stdout = "json object" ->
            [ok |-> TRUE, type |-> "dict",
             value |-> issue_record(p.items[1])]
      [] OTHER -> [ok |-> TRUE, type |-> "list", value |-> <<>>]

\* json.loads(result.stdout): a list, a dict, or JSONDecodeError.
json_loads(p) ==
    CASE p.stdout = "json array" ->
            [ok |-> TRUE, type |-> "list",
             value |-> [i \in DOMAIN p.items |-> issue_record(p.items[i])]]
      [] p.stdout = "json object" ->
            [ok |-> TRUE, type |-> "dict",
             value |-> issue_record(p.items[1])]
      [] OTHER -> [ok |-> FALSE, type |-> "none", value |-> <<>>]

Message(text) == [text |-> text, doc |-> NoOutput, error |-> ""]
Document(doc) == [text |-> "", doc |-> doc, error |-> ""]

\* print(f"Error processing results: {e}")
ErrorMessage(text, e) == [text |-> text, doc |-> NoOutput, error |-> e]

\* The output is captured in every call.
capture_output_always(c) == TRUE

\* capture_output of the subprocess.run call that is taken.
capture_output(c) == ~c.format_files /\ c.output_format # "text"

\* The interpreter started without a look at the file list.
interpreter_starts_without_files_test(c) ==
    <<[kind |-> "script", cmd |-> c.powershell_cmd,
       capture_output |-> capture_output(c), result |-> NoProc]>>

\* The subprocess.run calls of run_script_analyzer: none for an empty file
\* list, else the one of the branch taken.
interpreter_starts(c) ==
    IF c.files = <<>> THEN <<>>
    ELSE <<[kind |-> "script", cmd |-> c.powershell_cmd,
            capture_output |-> capture_output(c), result |-> NoProc]>>

\* The except clauses without the last one.
handle_exception_no_catch_all(exc) ==
    CASE exc = "TimeoutExpired" ->
            [raised |-> FALSE, ret |-> 1,
             printed |-> <<Message("Timeout while running PSScriptAnalyzer")>>]
      [] exc = "JSONDecodeError" ->
            [raised |-> FALSE, ret |-> 1,
             printed |->
                <<Message("Error parsing JSON output from PSScriptAnalyzer")>>]
      [] OTHER -> [raised |-> TRUE, ret |-> 1, printed |-> <<>>]

\* The except clauses of run_script_analyzer.
handle_exception(exc) ==
    CASE exc = "TimeoutExpired" ->
            [raised |-> FALSE, ret |-> 1,
             printed |-> <<Message("Timeout while running PSScriptAnalyzer")>>]
      [] exc = "JSONDecodeError" ->
            [raised |-> FALSE, ret |-> 1,
             printed |->
                <<Message("Error parsing JSON output from PSScriptAnalyzer")>>]
      [] OTHER ->
            [raised |-> FALSE, ret |-> 1,
             printed |-> <<ErrorMessage("Error processing results", exc)>>]

\* Lines 55-111: from the return of subprocess.run to the return statement.
\* io_ok: whether the output file can be opened and written.
after_subprocess(c, p, file_list, io_ok) ==
    LET Handled(exc) ==
            LET h == handle_exception(exc)
            IN  [raised |-> h.raised, ret |-> h.ret, written |-> FALSE,
                 doc |-> NoOutput, printed |-> h.printed]
        json_data ==
            IF p.returncode = 0 /\ p.stdout = "blank"
            THEN [ok |-> TRUE, type |-> "list", value |-> <<>>]
            ELSE json_loads(p)
        output_data ==
            IF c.output_format = "sarif"
            THEN [format |-> "sarif", type |-> "dict", json |-> <<>>,
                  sarif |-> convert_to_sarif(json_data, file_list)]
            ELSE [format |-> "json", type |-> json_data.type,
                  json |-> json_data.value, sarif |-> NoDoc]
    IN  IF p.state = "timeout" THEN Handled("TimeoutExpired")
        ELSE IF p.state = "failed" THEN Handled("OSError: interpreter")
        ELSE IF ~capture_output(c)
        THEN [raised |-> FALSE, ret |-> p.returncode, written |-> FALSE,
              doc |-> NoOutput, printed |-> <<>>]
        ELSE IF ~json_data.ok THEN Handled("JSONDecodeError")
        ELSE IF c.output_file # None
        THEN IF io_ok
             THEN [raised |-> FALSE, ret |-> p.returncode, written |-> TRUE,
                   doc |-> output_data, printed |-> <<>>]
             ELSE Handled("OSError: output file")
        ELSE [raised |-> FALSE, ret |-> p.returncode, written |-> FALSE,
              doc |-> NoOutput, printed |-> <<Document(output_data)>>]

DefaultArgs ==
    [severity |-> "Warning",
     security_only |-> FALSE, style_only |-> FALSE,
     performance_only |-> FALSE, best_practices_only |-> FALSE,
     dsc_only |-> FALSE, compatibility_only |-> FALSE,
     include_rules |-> None, exclude_rules |-> None,
     json_output |-> FALSE]

RunArgs ==
    {DefaultArgs,
     [DefaultArgs EXCEPT !.severity = "Error", !.security_only = TRUE]}

Calls ==
    [powershell_cmd : {"pwsh"}, files : FileLists, format_files : BOOLEAN,
     output_format : {"text", "json", "sarif"},
     output_file : {None, "results.out"},
     args : RunArgs]

Init ==
    /\ pc = "start"
    /\ call \in Calls
    /\ ps_results = <<>>
    /\ files = <<>>
    /\ sarif = NoDoc
    /\ args = NoArgs
    /\ script = NoScript
    /\ analyzed = <<>>
    /\ issues = <<>>
    /\ formatted = <<>>
    /\ exitCode = 0
    /\ proc = NoProc
    /\ ret = None
    /\ console = <<>>
    /\ out_file = NoOutput
    /\ started = <<>>
    /\ main = NoMain

\* Lines 33-53 and the start of subprocess.run: nothing is started for an
\* empty file list, else the script is synthesized and handed to the
\* interpreter.
RunScriptAnalyzer ==
    /\ pc = "start"
    /\ IF call.files = <<>>
       THEN /\ ret' = 0
            /\ pc' = "returned"
            /\ UNCHANGED <<files, genVars, proc>>
       ELSE LET files_param == file_literals(call.files)
                kwargs == [call.args EXCEPT !.json_output =
                              call.output_format \in {"json", "sarif"}]
            IN  /\ files' = call.files
                /\ proc' = [state |-> "running"]
                /\ ret' = ret
                /\ IF call.format_files
                   THEN /\ script' = generate_format_script(files_param)
                        /\ args' = args
                        /\ pc' = "format_loop"
                   ELSE /\ script' = generate_analysis_script(files_param, kwargs)
                        /\ args' = kwargs
                        /\ pc' = "script_loop"
    /\ started' = started \o interpreter_starts(call)
    /\ UNCHANGED <<sarifVars, scriptRunVars, formatVars, call, console,
                   out_file, main>>

\* The interpreter is still running after ANALYSIS_TIMEOUT seconds:
\* subprocess.run kills it and raises TimeoutExpired.
SubprocessTimeout ==
    /\ pc \in {"script_loop", "format_loop"}
    /\ proc' = [state |-> "timeout"]
    /\ pc' = "script_exit"
    /\ UNCHANGED <<files, sarifVars, genVars, scriptRunVars, formatVars,
                   runVars>>

\* subprocess.run cannot start the interpreter and raises OSError.
SubprocessOSError ==
    /\ pc \in {"script_loop", "format_loop"}
    /\ analyzed = <<>> /\ formatted = <<>>
    /\ proc' = [state |-> "failed"]
    /\ pc' = "script_exit"
    /\ UNCHANGED <<files, sarifVars, genVars, scriptRunVars, formatVars,
                   runVars>>

\* subprocess.run is over: the rest of run_script_analyzer.
RunScriptAnalyzerReturns ==
    /\ pc = "script_exit"
    /\ \E io_ok \in BOOLEAN :
          LET r == after_subprocess(call, proc, files, io_ok)
          IN  /\ ret' = r.ret
              /\ console' = console \o r.printed
              /\ out_file' = IF r.written THEN r.doc ELSE out_file
              /\ pc' = IF r.raised THEN "raised" ELSE "returned"
    /\ UNCHANGED <<files, sarifVars, genVars, scriptRunVars, formatVars,
                   proc, call, started, main>>

Next ==
    \/ RunScriptAnalyzer
    \/ ScriptAnalyzeFile
    \/ ScriptThrow
    \/ ScriptOutput
    \/ FormatFile
    \/ FormatExit
    \/ SubprocessTimeout
    \/ SubprocessOSError
    \/ RunScriptAnalyzerReturns

Spec == Init /\ [][Next]_vars

Printed(text) == \E i \in DOMAIN console : console[i].text = text

\* C4: in format mode and for every output format, run_script_analyzer
\* returns 0 when the delegated script exits 0, 1 when it exits 1 and 250
\* when it exits 250 (the output file being writable).
C4_ExitStatusSurfaced ==
    (/\ pc = "returned"
     /\ proc.state = "exited"
     /\ proc.returncode \in {0, 1, 250}
     /\ ~Printed("Error processing results"))
    => ret = proc.returncode

\* The subprocess.run calls that started the analysis or format script.
ScriptStarts ==
    LET IsScript(st) == st.kind = "script"
    IN  SelectSeq(started, IsScript)

PrintedError(text, e) ==
    \E i \in DOMAIN console : console[i].text = text /\ console[i].error = e

\* C15: run_script_analyzer starts the interpreter exactly once when the
\* file list is non-empty, in every mode and whatever the outcome, and never
\* (returning 0) when the file list is empty; no call is made a second time.
C15_InterpreterStartedOnce ==
    /\ Len(ScriptStarts) <= 1
    /\ pc # "start" =>
          Len(ScriptStarts) = (IF call.files = <<>> THEN 0 ELSE 1)
    /\ (pc = "returned" /\ call.files = <<>>) => (ret = 0 /\ proc = NoProc)

\* The interpreter timed out in sarif mode: one start, no second attempt.
C15_Witness ==
    /\ pc = "returned"
    /\ call.output_format = "sarif" /\ ~call.format_files
    /\ proc.state = "timeout"
    /\ ret = 1
    /\ Len(ScriptStarts) = 1

\* The captured output is not the JSON the tool expects.
MalformedOutput ==
    /\ proc.state = "exited"
    /\ capture_output(call)
    /\ ~(proc.returncode = 0 /\ proc.stdout = "blank")
    /\ proc.stdout \notin {"json array", "json object"}

\* The document was due to the output file and the file was not written.
OutputFileFailed ==
    /\ proc.state = "exited"
    /\ capture_output(call)
    /\ ~MalformedOutput
    /\ call.output_file # None
    /\ out_file = NoOutput

\* C16: run_script_analyzer lets no exception escape: a timeout prints
\* "Timeout while running PSScriptAnalyzer" and returns 1, malformed JSON
\* output returns 1, and any other exception (the interpreter that cannot be
\* started, an I/O error writing the output file) returns 1 with a message
\* carrying the underlying error.
C16_NoExceptionEscapes ==
    /\ pc # "raised"
    /\ (pc = "returned" /\ call.files # <<>>) =>
          /\ proc.state = "timeout" =>
                /\ ret = 1
                /\ Printed("Timeout while running PSScriptAnalyzer")
          /\ MalformedOutput => ret = 1
          /\ proc.state = "failed" =>
                /\ ret = 1
                /\ PrintedError("Error processing results",
                                "OSError: interpreter")
          /\ OutputFileFailed =>
                /\ ret = 1
                /\ PrintedError("Error processing results",
                                "OSError: output file")

\* The analysis found issues (exit 1, a JSON array), the output file cannot
\* be written: 1 is returned with the error in the message.
C16_Witness ==
    /\ pc = "returned"
    /\ call.output_format = "json"
    /\ proc.state = "exited" /\ proc.stdout = "json array"
    /\ OutputFileFailed
    /\ ret = 1
    /\ PrintedError("Error processing results", "OSError: output file")

\* C17: with output format json the document run_script_analyzer writes, to
\* the console or to the output file, is a JSON array of finding records for
\* every output of the analysis script: the empty array without findings, an
\* array also for exactly one finding.
C17_JsonDocumentIsArray ==
    (pc = "returned" /\ ~call.format_files /\ call.output_format = "json") =>
        /\ \A i \in DOMAIN console :
              console[i].doc # NoOutput =>
                  /\ console[i].doc.type = "list"
                  /\ Len(console[i].doc.json) = Len(issues)
        /\ out_file # NoOutput =>
              /\ out_file.type = "list"
              /\ Len(out_file.json) = Len(issues)

\* C18: the interpreter's output is captured if and only if the call is not
\* in format mode and the output format is json or sarif; in format mode and
\* in text mode the tool prints no document and does not open the output
\* file, whatever output_format and output_file are.
C18_CaptureOnlyForDocuments ==
    /\ \A i \in DOMAIN ScriptStarts :
          ScriptStarts[i].capture_output
             = (~call.format_files /\ call.output_format \in {"json", "sarif"})
    /\ (call.files # <<>> /\ (call.format_files \/ call.output_format = "text"))
       => /\ \A i \in DOMAIN console : console[i].doc = NoOutput
          /\ out_file = NoOutput
          /\ ~PrintedError("Error processing results", "OSError: output file")
          /\ pc = "returned" /\ proc.state = "exited" => ret = proc.returncode

\* Format mode with output format sarif and an output file: the script ran
\* uncaptured, nothing was printed by the tool, the file was left alone.
C18_Witness ==
    /\ pc = "returned"
    /\ call.format_files
    /\ call.output_format = "sarif"
    /\ call.output_file # None
    /\ proc.state = "exited"
    /\ Len(ScriptStarts) = 1
    /\ ~ScriptStarts[1].capture_output
    /\ console = <<>>
    /\ out_file = NoOutput

\* The result documents the tool has printed.
PrintedDocuments ==
    LET IsDocument(m) == m.doc # NoOutput
    IN  SelectSeq(console, IsDocument)

POWERSHELL_EXECUTABLES == <<"pwsh", "pwsh-lts", "powershell">>

Exited(returncode, stdout) ==
    [state |-> "exited", returncode |-> returncode, stdout |-> stdout]
TimedOut == [state |-> "timeout"]
Missing == [state |-> "missing"]

\* The probe counted as a success whatever its exit status.
probe_succeeds_any_exit(result) == result.state = "exited"

\* A probe that timed out taken as an answer.
probe_succeeds_on_timeout(result) ==
    \/ result.state = "exited" /\ result.returncode = 0
    \/ result.state = "timeout"

\* find_powershell, one candidate: the probe ran to its end (no
\* TimeoutExpired, no FileNotFoundError) and result.returncode == 0.
probe_succeeds(result) ==
    result.state = "exited" /\ result.returncode = 0

\* The module taken as installed on the exit status alone.
installed_by_exit_status(result) ==
    result.state = "exited" /\ result.returncode = 0

\* check_psscriptanalyzer_installed: stdout is the set of the module names
\* that Get-Module -ListAvailable has listed.
check_psscriptanalyzer_installed(result) ==
    /\ result.state = "exited"
    /\ result.returncode = 0
    /\ "PSScriptAnalyzer" \in result.stdout

\* The installation reported as done in every case.
install_reports_success(result) ==
    [ok |-> TRUE,
     printed |-> <<Message("PSScriptAnalyzer not found. Installing...")>>]

\* install_psscriptanalyzer: the value returned and what it prints.
install_psscriptanalyzer(result) ==
    IF result.state = "timeout"
    THEN [ok |-> FALSE,
          printed |-> <<Message("PSScriptAnalyzer not found. Installing..."),
                        Message("Timeout while installing PSScriptAnalyzer")>>]
    ELSE [ok |-> result.returncode = 0,
          printed |-> <<Message("PSScriptAnalyzer not found. Installing...")>>]

\* The results the three probes, the module query and the install command
\* can have.
ProbeResults == {Exited(0, {}), Exited(1, {}), TimedOut, Missing}

CheckResults ==
    {Exited(0, {"PSScriptAnalyzer"}), Exited(0, {}),
     Exited(1, {"PSScriptAnalyzer"}), Exited(1, {}), TimedOut}

InstallResults == {Exited(0, {}), Exited(1, {}), TimedOut}

(***************************************************************************)
(* The entry points cli.main and core.main                                 *)
(***************************************************************************)
POWERSHELL_FILE_EXTENSIONS == {".ps1", ".psm1", ".psd1"}

\* The ending str.endswith looks at, on the file arguments of the model.
extension(f) ==
    CASE f = "a.ps1" -> ".ps1"
      [] f = "it's.psm1" -> ".psm1"
      [] f = "c.psd1" -> ".psd1"
      [] f = "d.ps1" -> ".ps1"
      [] OTHER -> ".txt"

\* The file arguments taken as they come.
powershell_files_unfiltered(file_args) == file_args

\* [f for f in args.files if f.endswith(POWERSHELL_FILE_EXTENSIONS)]
powershell_files(file_args) ==
    LET IsPowerShell(f) == extension(f) \in POWERSHELL_FILE_EXTENSIONS
    IN  SelectSeq(file_args, IsPowerShell)

\* sorted() on the file names of the model.
sorted(names) ==
    LET InNames(f) == f \in names
    IN  SelectSeq(<<"a.ps1", "c.psd1", "d.ps1", "it's.psm1", "notes.txt">>,
                  InNames)

\* find_powershell_files_recursive: what the patterns **/*.ps1, **/*.psm1
\* and **/*.psd1 match under the working directory, sorted.
find_powershell_files_recursive(cwd) ==
    sorted({f \in cwd : extension(f) \in POWERSHELL_FILE_EXTENSIONS})

\* get_default_severity: os.getenv("SEVERITY_LEVEL", "Warning") when it is a
\* valid level, else "Warning"; env is None when the variable is unset.
get_default_severity(env) ==
    LET env_severity == IF env = None THEN "Warning" ELSE env
    IN  IF env_severity \in {"All", "Information", "Warning", "Error"}
        THEN env_severity
        ELSE "Warning"

\* args.severity after parse_args: the --severity argument, else the default
\* of the parser, get_default_severity() in cli.py and "Warning" in core.py.
parse_severity(m) ==
    IF m.severity # None THEN m.severity
    ELSE IF m.entry = "cli" THEN get_default_severity(m.env)
    ELSE "Warning"

\* An f-string: the text with its placeholder, and the value put in.
Interpolated(text, value) == [text |-> text, doc |-> NoOutput, error |-> value]

\* The test made on the value find_powershell returned, never true.
powershell_missing_never(powershell_cmd) == FALSE

\* if not powershell_cmd
powershell_missing(powershell_cmd) == powershell_cmd = None

\* What the entry point prints when no interpreter is found.
not_found_messages(entry) ==
    IF entry = "cli"
    THEN <<Message("PowerShell not found. Please install PowerShell Core (pwsh) or Windows PowerShell."),
           Message("Visit: https://github.com/PowerShell/PowerShell#get-powershell")>>
    ELSE <<Message("Error: PowerShell not found. Please install PowerShell Core (pwsh) or Windows PowerShell."),
           Message("Visit: https://github.com/PowerShell/PowerShell#get-powershell")>>

\* The filter description of cli.main (analyze mode only).
filter_description(m) ==
    IF m.format THEN ""
    ELSE IF m.args.security_only THEN " (security rules only)"
    ELSE IF m.args.style_only THEN " (style rules only)"
    ELSE IF m.args.performance_only THEN " (performance rules only)"
    ELSE IF m.args.best_practices_only THEN " (best practices only)"
    ELSE IF m.args.dsc_only THEN " (DSC rules only)"
    ELSE IF m.args.compatibility_only THEN " (compatibility rules only)"
    ELSE IF Truthy(m.args.include_rules) THEN " (specific included rules)"
    ELSE IF Truthy(m.args.exclude_rules) THEN " (with specific rules excluded)"
    ELSE ""

\* "Run the analysis or formatting": the line announcing the run.
announcement(m) ==
    [text |-> "{action}{filter_description} {len(ps_files)} PowerShell file(s)...",
     doc |-> NoOutput, error |-> "",
     action |-> IF m.format THEN "Formatting" ELSE "Analyzing",
     filter_description |-> IF m.entry = "cli" THEN filter_description(m)
                            ELSE "",
     count |-> Len(m.ps_files)]

\* The arguments main hands to run_script_analyzer: cli.main passes all its
\* options, core.main the format flag and the severity.
run_script_analyzer_call(m) ==
    IF m.entry = "cli"
    THEN [powershell_cmd |-> m.powershell_cmd, files |-> m.ps_files,
          format_files |-> m.format, output_format |-> m.output_format,
          output_file |-> m.output_file, args |-> m.args]
    ELSE [powershell_cmd |-> m.powershell_cmd, files |-> m.ps_files,
          format_files |-> m.format, output_format |-> "text",
          output_file |-> None,
          args |-> [DefaultArgs EXCEPT !.severity = m.args.severity]]

\* The invocations of the model: the parsed command line.
MainFileArgs ==
    {<<>>, <<"notes.txt">>, <<"a.ps1">>, <<"notes.txt", "a.ps1", "it's.psm1">>}

\* The SEVERITY_LEVEL variable (None: unset) and the --severity argument
\* (None: not given).
SeverityOptions ==
    {[env |-> None, severity |-> None],
     [env |-> "Error", severity |-> None],
     [env |-> "Verbose", severity |-> None],
     [env |-> "Error", severity |-> "Information"]}

\* The other options as parse_args gives them; args.severity is filled in
\* when main starts.
MainArgs == {[a EXCEPT !.severity = None] : a \in RunArgs}

\* The working directory, which only --recursive looks at.
WorkingDirectories == {{"notes.txt"}, {"notes.txt", "d.ps1", "c.psd1"}}

Invocations ==
    {[entry |-> "cli", files |-> f, recursive |-> FALSE, cwd |-> {},
      format |-> fmt, output_format |-> o, output_file |-> None,
      env |-> sv.env, severity |-> sv.severity, args |-> a,
      ps_files |-> <<>>, powershell_cmd |-> None, exit |-> None] :
        f \in MainFileArgs, fmt \in BOOLEAN, o \in {"text", "sarif"},
        sv \in SeverityOptions, a \in MainArgs}
    \cup
    {[entry |-> "cli", files |-> f, recursive |-> TRUE, cwd |-> d,
      format |-> fmt, output_format |-> "text", output_file |-> None,
      env |-> None, severity |-> None,
      args |-> [DefaultArgs EXCEPT !.severity = None],
      ps_files |-> <<>>, powershell_cmd |-> None, exit |-> None] :
        f \in {<<>>, <<"a.ps1">>}, fmt \in BOOLEAN,
        d \in WorkingDirectories}
    \cup
    {[entry |-> "core", files |-> f, recursive |-> FALSE, cwd |-> {},
      format |-> fmt, output_format |-> "text", output_file |-> None,
      env |-> sv.env, severity |-> sv.severity,
      args |-> [DefaultArgs EXCEPT !.severity = None],
      ps_files |-> <<>>, powershell_cmd |-> None, exit |-> None] :
        f \in MainFileArgs, fmt \in BOOLEAN, sv \in SeverityOptions}

InitMain ==
    /\ pc = "main"
    /\ main \in Invocations
    /\ call = NoCall
    /\ ps_results = <<>>
    /\ files = <<>>
    /\ sarif = NoDoc
    /\ args = NoArgs
    /\ script = NoScript
    /\ analyzed = <<>>
    /\ issues = <<>>
    /\ formatted = <<>>
    /\ exitCode = 0
    /\ proc = NoProc
    /\ ret = None
    /\ console = <<>>
    /\ out_file = NoOutput
    /\ started = <<>>

mainFrame ==
    <<files, sarifVars, genVars, scriptRunVars, formatVars, proc, ret, out_file>>

\* main up to the call of find_powershell: the file arguments are filtered,
\* and without a PowerShell file the invocation ends with status 0.
MainStart ==
    /\ pc = "main"
    /\ LET cli == main.entry = "cli"
           recursive == cli /\ main.recursive
           ps_files == IF recursive
                       THEN find_powershell_files_recursive(main.cwd)
                       ELSE powershell_files(main.files)
           severity == parse_severity(main)
           searching ==
               IF recursive
               THEN <<Message("Searching for PowerShell files recursively...")>>
               ELSE <<>>
       IN  IF ps_files = <<>>
           THEN /\ main' = [main EXCEPT !.exit = 0,
                                        !.args.severity = severity]
                /\ console' = console \o searching \o
                      (IF recursive
                       THEN <<Message("No PowerShell files found")>>
                       ELSE IF cli
                       THEN <<Message("No PowerShell files specified")>>
                       ELSE <<>>)
                /\ pc' = "exited"
           ELSE /\ main' = [main EXCEPT !.ps_files = ps_files,
                                        !.args.severity = severity]
                /\ console' = console \o searching \o
                      (IF recursive
                       THEN <<Interpolated("Found {len(ps_files)} PowerShell file(s)",
                                           Len(ps_files))>>
                       ELSE <<>>) \o
                      (IF cli
                       THEN <<Message("Finding PowerShell installation...")>>
                       ELSE <<>>)
                /\ pc' = "find_powershell"
    /\ UNCHANGED <<mainFrame, call, started>>

\* One turn of the loop of find_powershell; when the function returns, main
\* goes on to its next external call or ends.
ProbePowershell ==
    /\ pc = "find_powershell"
    /\ \E result \in ProbeResults :
          LET i == Len(started) + 1
              name == POWERSHELL_EXECUTABLES[i]
              found == IF probe_succeeds(result) THEN name ELSE None
              cli == main.entry = "cli"
          IN  /\ started' = Append(started,
                                   [kind |-> "probe", cmd |-> name,
                                    capture_output |-> TRUE, result |-> result])
              /\ IF found = None /\ i < Len(POWERSHELL_EXECUTABLES)
                 THEN UNCHANGED <<pc, main, console>>
                 ELSE IF powershell_missing(found)
                 THEN /\ main' = [main EXCEPT !.exit = 1]
                      /\ console' = console \o not_found_messages(main.entry)
                      /\ pc' = "exited"
                 ELSE /\ main' = [main EXCEPT !.powershell_cmd = found]
                      /\ console' = console
                            \o <<Interpolated("Using PowerShell: {powershell_cmd}",
                                              found)>>
                            \o (IF cli
                                THEN <<Message("Checking PSScriptAnalyzer installation...")>>
                                ELSE <<>>)
                      /\ pc' = "check_module"
    /\ UNCHANGED <<mainFrame, call>>

\* check_psscriptanalyzer_installed(powershell_cmd) and what main does with
\* its answer.
CheckModule ==
    /\ pc = "check_module"
    /\ \E result \in CheckResults :
          LET installed == check_psscriptanalyzer_installed(result)
              cli == main.entry = "cli"
          IN  /\ started' = Append(started,
                                   [kind |-> "check", cmd |-> main.powershell_cmd,
                                    capture_output |-> TRUE, result |-> result,
                                    returned |-> installed])
              /\ IF installed
                 THEN /\ console' = console
                            \o (IF cli
                                THEN <<Message("PSScriptAnalyzer is available")>>
                                ELSE <<>>)
                            \o <<announcement(main)>>
                      /\ call' = run_script_analyzer_call(main)
                      /\ pc' = "start"
                 ELSE /\ console' = console
                            \o (IF cli
                                THEN <<Message("PSScriptAnalyzer not found. Installing...")>>
                                ELSE <<>>)
                      /\ call' = call
                      /\ pc' = "install"
    /\ UNCHANGED <<mainFrame, main>>

\* install_psscriptanalyzer(powershell_cmd) and what main does with its
\* answer.
InstallModule ==
    /\ pc = "install"
    /\ \E result \in InstallResults :
          LET r == install_psscriptanalyzer(result)
              cli == main.entry = "cli"
          IN  /\ started' = Append(started,
                                   [kind |-> "install",
                                    cmd |-> main.powershell_cmd,
                                    capture_output |-> TRUE, result |-> result,
                                    returned |-> r.ok])
              /\ IF r.ok
                 THEN /\ console' = console \o r.printed
                            \o <<Message("PSScriptAnalyzer installed successfully"),
                                 announcement(main)>>
                      /\ call' = run_script_analyzer_call(main)
                      /\ main' = main
                      /\ pc' = "start"
                 ELSE /\ console' = console \o r.printed
                            \o <<Message(IF cli
                                         THEN "Failed to install PSScriptAnalyzer"
                                         ELSE "Error: Failed to install PSScriptAnalyzer")>>
                      /\ call' = call
                      /\ main' = [main EXCEPT !.exit = 1]
                      /\ pc' = "exited"
    /\ UNCHANGED mainFrame

\* Success reported whatever the mode and the output format.
reports_no_issues_any_mode(m, exit_code) ==
    m.entry = "cli" /\ exit_code = 0

\* cli.main: if exit_code == 0 and not args.format and
\* args.output_format == "text"; core.main prints nothing of its own.
reports_no_issues(m, exit_code) ==
    /\ m.entry = "cli"
    /\ exit_code = 0
    /\ ~m.format
    /\ m.output_format = "text"

\* run_script_analyzer has returned: main returns its result.
MainReturns ==
    /\ pc = "returned"
    /\ main.entry # None
    /\ main' = [main EXCEPT !.exit = ret]
    /\ console' = console \o
          (IF reports_no_issues(main, ret)
           THEN <<Message("No issues found")>> ELSE <<>>)
    /\ pc' = "exited"
    /\ UNCHANGED <<mainFrame, call, started>>

NextMain ==
    \/ MainStart
    \/ ProbePowershell
    \/ CheckModule
    \/ InstallModule
    \/ MainReturns
    \/ Next

SpecMain == InitMain /\ [][NextMain]_vars

(***************************************************************************)
(* Properties of the entry points and of powershell.py                     *)
(***************************************************************************)
Started(kind) ==
    LET IsKind(st) == st.kind = kind
    IN  SelectSeq(started, IsKind)

Probes == Started("probe")
Checks == Started("check")
Installs == Started("install")

\* The phrases of a printed text that the properties look for.
Phrases(text) ==
    CASE text = "PowerShell not found. Please install PowerShell Core (pwsh) or Windows PowerShell."
            -> {"PowerShell not found"}
      [] text = "Error: PowerShell not found. Please install PowerShell Core (pwsh) or Windows PowerShell."
            -> {"PowerShell not found"}
      [] OTHER -> {}

Emitted(phrase) == \E i \in DOMAIN console : phrase \in Phrases(console[i].text)

\* find_powershell has returned None in this invocation.
DiscoveryFailed ==
    /\ pc \notin {"main", "find_powershell"}
    /\ main.ps_files # <<>>
    /\ \A i \in DOMAIN Probes :
          ~(Probes[i].result.state = "exited"
            /\ Probes[i].result.returncode = 0)

\* C11: when interpreter discovery returns None, the entry point (cli.main
\* or core.main) exits 1 and emits a message containing "PowerShell not
\* found", and neither the module check, the installation nor the analysis
\* or format subprocess is started in that invocation.
C11_NoInterpreterNoWork ==
    DiscoveryFailed =>
        /\ pc = "exited"
        /\ main.exit = 1
        /\ Emitted("PowerShell not found")
        /\ Checks = <<>> /\ Installs = <<>> /\ ScriptStarts = <<>>
        /\ call = NoCall

\* core.main: the three candidates time out, are missing, exit non-zero.
C11_Witness ==
    /\ pc = "exited"
    /\ main.entry = "core"
    /\ DiscoveryFailed
    /\ Len(Probes) = 3
    /\ Probes[1].result = TimedOut
    /\ Probes[2].result = Missing
    /\ Probes[3].result = Exited(1, {})
    /\ main.exit = 1
    /\ Emitted("PowerShell not found")

C13_ModuleCheckAndInstall ==
    /\ pc # "raised"
    /\ \A i \in DOMAIN Checks :
          LET r == Checks[i].result
          IN  Checks[i].returned
                 = (r \in {Exited(0, {"PSScriptAnalyzer"})})
    /\ \A i \in DOMAIN Installs :
          LET r == Installs[i].result
          IN  Installs[i].returned = (r \in {Exited(0, {})})

\* The query exits 0 without naming the module (false), then the install
\* times out (false).
C13_Witness ==
    /\ Len(Checks) = 1 /\ Len(Installs) = 1
    /\ Checks[1].result = Exited(0, {})
    /\ ~Checks[1].returned
    /\ Installs[1].result = TimedOut
    /\ ~Installs[1].returned

\* The module query reported the module absent.
ModuleAbsent ==
    /\ Checks # <<>>
    /\ Checks[1].result # Exited(0, {"PSScriptAnalyzer"})

\* C14: in both entry points the installation is attempted if and only if
\* the module check reports the module absent, and at most once; when it
\* fails the invocation exits 1 and the analysis or format subprocess is never
\* started, when it succeeds the invocation goes on to the analysis.
C14_InstallOnlyIfAbsent ==
    /\ Len(Checks) <= 1 /\ Len(Installs) <= 1
    /\ Installs # <<>> => ModuleAbsent
    /\ (ModuleAbsent /\ pc # "install") => Installs # <<>>
    /\ Installs # <<>> =>
          IF Installs[1].result = Exited(0, {})
          THEN /\ call = run_script_analyzer_call(main)
               /\ pc # "start" => Len(ScriptStarts) = 1
               /\ pc = "exited" => main.exit = ret
          ELSE /\ pc = "exited"
               /\ main.exit = 1
               /\ ScriptStarts = <<>>
               /\ call = NoCall

\* cli.main: the module is absent and the installation exits 1.
C14_Witness ==
    /\ pc = "exited"
    /\ main.entry = "cli"
    /\ ModuleAbsent
    /\ Len(Installs) = 1
    /\ Installs[1].result = Exited(1, {})
    /\ main.exit = 1
    /\ ScriptStarts = <<>>
    /\ Printed("Failed to install PSScriptAnalyzer")

\* C22: cli.main exits with the result of the analyzer call, and it reports
\* "No issues found" exactly when that result is 0, format mode is off and
\* the output format is text; so with the interpreter found, the module
\* installed and the call returning 0 it exits 0 and, in text analyze mode,
\* reports "No issues found".
C22_NoIssuesReport ==
    (pc = "exited" /\ main.entry = "cli" /\ call # NoCall) =>
        /\ main.exit = ret
        /\ Printed("No issues found")
              <=> (ret = 0 /\ ~main.format /\ main.output_format = "text")

\* pwsh answers the probe, the module is installed, the analysis of a.ps1
\* in text mode returns 0.
C22_Witness ==
    /\ pc = "exited"
    /\ main.entry = "cli"
    /\ main.powershell_cmd = "pwsh"
    /\ Len(Checks) = 1 /\ Checks[1].returned
    /\ Installs = <<>>
    /\ ~main.format /\ main.output_format = "text"
    /\ ret = 0
    /\ main.exit = 0
    /\ Printed("No issues found")

\* The place of a kind of external step in an invocation.
StepRank(kind) ==
    CASE kind = "probe" -> 1
      [] kind = "check" -> 2
      [] kind = "install" -> 3
      [] kind = "script" -> 4

\* C26: in every invocation of either entry point the subprocesses start in
\* the order probe, module check, install, analyze/format, each after the
\* one before it has ended; each candidate is probed at most once, the module
\* check, the install and the analyze/format call happen at most once each,
\* so at most six subprocesses start, and the analyze/format call starts only
\* after a probe that exited 0 and a module check or install that reported
\* success.
C26_SequentialSteps ==
    /\ \A i, j \in DOMAIN started :
          i < j => /\ StepRank(started[i].kind) <= StepRank(started[j].kind)
                   /\ started[i].result # NoProc
    /\ \A i, j \in DOMAIN Probes : i # j => Probes[i].cmd # Probes[j].cmd
    /\ Len(Checks) <= 1 /\ Len(Installs) <= 1 /\ Len(ScriptStarts) <= 1
    /\ Len(started) <= 6
    /\ ScriptStarts # <<>> =>
          /\ \E i \in DOMAIN Probes :
                /\ Probes[i].result.state = "exited"
                /\ Probes[i].result.returncode = 0
          /\ Checks # <<>>
          /\ \/ Checks[1].returned
             \/ Installs # <<>> /\ Installs[1].returned

\* Six subprocesses: three probes, the last one answering, the module check
\* reporting the module absent, a successful install, the script.
C26_Witness ==
    /\ pc = "exited"
    /\ Len(started) = 6
    /\ Len(Probes) = 3
    /\ ~Checks[1].returned
    /\ Installs[1].returned
    /\ started[6].kind = "script"
    /\ main.exit = ret

\* The severity an invocation asks for: the --severity argument, else the
\* SEVERITY_LEVEL variable when it holds a level, else Warning.
RequestedSeverity ==
    IF main.severity # None THEN main.severity
    ELSE IF main.env \in {"All", "Information", "Warning", "Error"}
    THEN main.env
    ELSE "Warning"

\* C23: when --severity is not given, the severity handed to the analyzer is
\* the value of SEVERITY_LEVEL if it is one of All, Information, Warning,
\* Error, and Warning otherwise; an explicit --severity overrides it; in
\* cli.main and in core.main alike.
C23_SeverityDefault ==
    call # NoCall => call.args.severity = RequestedSeverity

\* The same for cli.main alone.
C23_CliSeverityDefault ==
    (call # NoCall /\ main.entry = "cli") =>
        call.args.severity = RequestedSeverity

\* The file arguments that end in .ps1, .psm1 or .psd1, in their order.
PowerShellArguments ==
    LET Ends(f) == extension(f) \in {".ps1", ".psm1", ".psd1"}
    IN  SelectSeq(main.files, Ends)

\* The invocation is over with status 0 and no subprocess was started.
EndedWithoutSubprocess ==
    /\ pc = "exited"
    /\ main.exit = 0
    /\ started = <<>>
    /\ call = NoCall

AnnouncedFilter == filter_description([format |-> FALSE, args |-> args])

\* The category descriptions of cli.main, in the order of CategoryLists.
CategoryDescriptions ==
    <<" (security rules only)", " (style rules only)",
      " (performance rules only)", " (best practices only)",
      " (DSC rules only)", " (compatibility rules only)">>

\* C28: for every combination of category flags, include rules and exclude
\* rules in analyze mode, the filter description cli.main announces names a
\* filter the generated script applies: a category description goes with
\* that category's allow-list in the script, "(specific included rules)"
\* with the include-list filter, "(with specific rules excluded)" with the
\* exclude-list filter.
C28_AnnouncedFilterApplied ==
    Generated =>
        /\ \A i \in 1..6 :
              AnnouncedFilter = CategoryDescriptions[i] =>
                  /\ Len(CategoryFilters) = 1
                  /\ CategoryFilters[1].list = CategoryLists[i]
        /\ AnnouncedFilter = " (specific included rules)" =>
              IncludeFilters # <<>>
        /\ AnnouncedFilter = " (with specific rules excluded)" =>
              ExcludeFilters # <<>>

\* The format script has run to its exit statement.
FormatScriptExited ==
    /\ proc.state = "exited"
    /\ proc.stdout = "format log"

\* Some file of the format run went through the catch block.
SomeFormatFailed == \E i \in DOMAIN formatted : formatted[i].failed

\* The files are taken in order, a failure does not stop the loop, and the
\* script exits 1 if and only if some file failed, else 0.
FormatLoopAndExit ==
    /\ \A i \in DOMAIN formatted : formatted[i].file = files[i]
    /\ FormatScriptExited =>
          /\ Len(formatted) = Len(script.files)
          /\ proc.returncode = IF SomeFormatFailed THEN 1 ELSE 0

\* C25: the format script processes the files in order and rewrites a file
\* if and only if the formatter's output differs from the file's original
\* content; a failure on one file does not stop the later files from being
\* formatted, and the script exits 1 if and only if at least one file failed
\* to format, else 0.
C25_RewrittenIffDifferent ==
    /\ FormatLoopAndExit
    /\ \A i \in DOMAIN formatted :
          ~formatted[i].failed =>
              /\ formatted[i].rewritten
                    <=> formatted[i].result # formatted[i].original
              /\ formatted[i].content =
                    IF formatted[i].rewritten THEN formatted[i].result
                    ELSE formatted[i].original

(***************************************************************************)
(* SpecQuote: the array literals of the script, character by character.    *)
(* One invocation embeds a list of file paths, or the rule names of        *)
(* --include-rules or of --exclude-rules.                                  *)
(***************************************************************************)
Characters == {"a", "'", ","}

Strings == UNION {[1..n -> Characters] : n \in 0..MaxLen}

QuoteCalls ==
    {[kind |-> "files", files |-> file_list, rules |-> <<>>] :
        file_list \in UNION {[1..n -> Strings] : n \in 0..MaxFiles}}
    \cup
    {[kind |-> k, files |-> <<>>, rules |-> r] :
        k \in {"include_rules", "exclude_rules"}, r \in Strings \ {<<>>}}

InitQuote ==
    /\ pc = "quote"
    /\ call \in QuoteCalls
    /\ ps_results = <<>>
    /\ files = <<>>
    /\ sarif = NoDoc
    /\ args = NoArgs
    /\ script = NoScript
    /\ analyzed = <<>>
    /\ issues = <<>>
    /\ formatted = <<>>
    /\ exitCode = 0
    /\ proc = NoProc
    /\ ret = None
    /\ console = <<>>
    /\ out_file = NoOutput
    /\ started = <<>>
    /\ main = NoMain

quoteFrame ==
    <<ps_results, files, sarif, args, scriptRunVars, formatVars, proc, runVars>>

\* run_script_analyzer: files_param = build_powershell_file_array(files),
\* put into $files = @({files_param}).
BuildFileArray ==
    /\ pc = "quote"
    /\ call.kind = "files"
    /\ script' = [list_var |-> "$files", values |-> call.files,
                  text |-> build_powershell_file_array(call.files)]
    /\ pc' = "quoted"
    /\ UNCHANGED quoteFrame

\* cli.main splits --include-rules at the commas; generate_analysis_script
\* puts the names into $includeRules = @({include_rules_list}).
EmbedIncludeRules ==
    /\ pc = "quote"
    /\ call.kind = "include_rules"
    /\ LET include_rules == split(call.rules, ",")
       IN  script' = [list_var |-> "$includeRules", values |-> include_rules,
                      text |-> include_rules_list(include_rules)]
    /\ pc' = "quoted"
    /\ UNCHANGED quoteFrame

\* The same for --exclude-rules and $excludeRules.
EmbedExcludeRules ==
    /\ pc = "quote"
    /\ call.kind = "exclude_rules"
    /\ LET exclude_rules == split(call.rules, ",")
       IN  script' = [list_var |-> "$excludeRules", values |-> exclude_rules,
                      text |-> exclude_rules_list(exclude_rules)]
    /\ pc' = "quoted"
    /\ UNCHANGED quoteFrame

NextQuote ==
    \/ BuildFileArray
    \/ EmbedIncludeRules
    \/ EmbedExcludeRules

SpecQuote == InitQuote /\ [][NextQuote]_vars

\* The single quotes of a string, and the string without them.
Quotes(text) ==
    LET IsQuote(c) == c = "'"
    IN  SelectSeq(text, IsQuote)

WithoutQuotes(text) ==
    LET NoQuote(c) == c # "'"
    IN  SelectSeq(text, NoQuote)

\* Every quote of path is doubled in escaped and nothing else is changed:
\* putting one quote for each pair gives path back, there are twice as many
\* quotes, and the other characters are the same in the same order.
QuotesDoubled(path, escaped) ==
    /\ replace(escaped, <<"'", "'">>, <<"'">>) = path
    /\ Len(Quotes(escaped)) = 2 * Len(Quotes(path))
    /\ WithoutQuotes(escaped) = WithoutQuotes(path)

\* C21: escape_powershell_path doubles every single quote of a path and
\* changes nothing else, so replacing each doubled quote by a single one
\* gives back the original path for every path; build_powershell_file_array
\* wraps each escaped path in single quotes and joins them with commas in
\* input order, the empty list giving the empty string.
C21_QuotesDoubledAndJoined ==
    (pc = "quoted" /\ script.list_var = "$files") =>
        /\ \A i \in DOMAIN call.files :
              QuotesDoubled(call.files[i],
                            escape_powershell_path(call.files[i]))
        /\ script.text =
              Concat([i \in DOMAIN call.files |->
                        (IF i = 1 THEN <<>> ELSE <<",">>)
                        \o <<"'">> \o escape_powershell_path(call.files[i])
                        \o <<"'">>])
        /\ call.files = <<>> => script.text = <<>>

\* Two paths, a quote followed by a, and two quotes: three quotes and a
\* between quotes, a comma, six quotes.
C21_Witness ==
    /\ pc = "quoted"
    /\ call.files = << <<"'", "a">>, <<"'", "'">> >>
    /\ script.text = <<"'", "'", "'", "a", "'", ",",
                       "'", "'", "'", "'", "'", "'">>

\* C27: every user-supplied string embedded in the script as a
\* single-quoted literal (each file path, each include-rule name, each
\* exclude-rule name) has every single quote doubled, so no value ends its
\* literal early: PowerShell reads back exactly the values put in.
C27_NoValueEndsItsLiteral ==
    pc = "quoted" =>
        /\ read_array_literal(script.text).ok
        /\ read_array_literal(script.text).values = script.values

\* The same for the file paths alone.
C27_FilePathsReadBack ==
    (pc = "quoted" /\ script.list_var = "$files") =>
        /\ read_array_literal(script.text).ok
        /\ read_array_literal(script.text).values = call.files

====
